---- MODULE Spec2Model ----
(***************************************************************************)
(* Model of the SocketIO event handlers of src/app.py and of its           *)
(* join-by-id request: the connection registry (session, active_users),    *)
(* the live room subscriptions kept by the SocketIO server, the persisted  *)
(* users / rooms / messages, and the events delivered to every connection. *)
(*                                                                         *)
(* The server runs with async_mode='threading': every handler runs in its  *)
(* own thread.  A handler is therefore cut into steps, one step per access *)
(* to shared state (a store call, active_users, a room, an emit).  Spec    *)
(* runs the handlers one after the other; SpecConc interleaves the steps   *)
(* of handlers of different connections.  SpecRooms and SpecRoomsConc do   *)
(* the same for clients that send well-formed data, over longer runs.      *)
(* SpecFair is Spec with handlers that run on to their return.  SpecCreate *)
(* runs the index creation of start-up and concurrent create_room          *)
(* requests.                                                               *)
(***************************************************************************)
EXTENDS Integers, Sequences, FiniteSets, TLC

\* ---- bounds ----
MaxConns == 2        \* connection ids handed out (request.sid), never reused
MaxEvents == 3       \* inbound events handled, Spec
MaxConcEvents == 5   \* inbound events handled, SpecConc
MaxFaults == 1       \* store calls that raise
MaxRoomEvents == 4   \* inbound events handled, SpecRooms
MaxCreators == 2     \* create_room requests served at the same time
MaxCreates == 3      \* create_room requests handled, SpecCreate

None == "none"

Conns == 1..MaxConns

\* users_collection: the documents of the store; Ghost is a user id that a
\* validly signed token carries but that users_collection does not hold.
users_collection == {"U1", "U2"}
Ghost == "U0"

\* data.get('token'): NoToken is a missing token, the others are JWTs with
\* their payload user_id and whether signature and expiry check out.
NoToken == [user_id |-> None, valid |-> FALSE]
Tokens ==
  { NoToken,
    [user_id |-> "U1", valid |-> TRUE],
    [user_id |-> "U2", valid |-> TRUE],
    [user_id |-> Ghost, valid |-> TRUE],
    [user_id |-> "U1", valid |-> FALSE] }

\* data.get('room_id'): "" is missing, "bad" is not an ObjectId, "R0" is a
\* well-formed id of no room, "R1" is a public room, "R2" a private room.
RoomArgs == {"", "bad", "R0", "R1", "R2"}
WellFormedIds == {"R0", "R1", "R2"}
rooms_collection == {"R1", "R2"}
RoomType == [r \in rooms_collection |-> IF r = "R1" THEN "public" ELSE "private"]
\* every non-empty string names a SocketIO room
RoomKeys == RoomArgs \ {""}

\* the 8-character code that create_room stores in the room_id field of a
\* private room; public rooms have none
room_code == [r \in {"R2"} |-> <<"A", "B", "C", "D", "1", "2", "3", "4">>]

\* data['room_id'] of a join-by-id request: missing; the code of R2 in lower
\* case with blanks around it; a code of three characters; a code of no room
RoomCodes ==
  { <<>>,
    <<" ", "a", "b", "c", "d", "1", "2", "3", "4", " ">>,
    <<"A", "B", "C">>,
    <<"Z", "Z", "Z", "Z", "Z", "Z", "Z", "Z">> }

\* the codes that random.choice can make generate_room_id draw: the code of
\* R2 and a code that no seeded room has
GeneratedCodes == { room_code["R2"], <<"Q", "R", "S", "T", "5", "6", "7", "8">> }

\* data.get('name') and data.get('type', 'public') of a create_room request
RoomNames == { <<>>, <<"n", " ">> }
RoomTypeArgs == {"public", "private", "group"}

\* the name of the seeded public room
SeededNames == { <<"g">> }

Creators == 1..MaxCreators

\* data.get('content', ''): strings as sequences of characters
Contents == { <<>>, <<" ">>, <<" ", "h", " ">> }

VARIABLES
  live,          \* connections whose transport is open
  nextSid,       \* next connection id
  session,       \* session['auth_data'] of each connection (user id or None)
  active_users,  \* active_users[sid] (user id, None when the key is absent)
  is_online,     \* users_collection: is_online flag of each user
  members,       \* rooms_collection: members list of each room
  messages,      \* messages_collection, in insertion order
  subs,          \* SocketIO rooms: connections subscribed to each room
  emitted,       \* events the last step delivered to each connection
  received,      \* ids of the new_message events each connection got, in order
  pc,            \* position of the handler running for each connection
  cur,           \* locals of that handler
  faults,        \* store calls that raised so far
  events,        \* inbound events handled so far
  presence,      \* last presence event broadcast for each user
  request,       \* the inbound event received last: request.sid and its data
  rest,          \* position and locals of the REST request being served
  response,      \* the HTTP response the last step returned
  rooms,         \* rooms_collection: the rooms inserted by create_room, in order
  room_id_index, \* the unique index on room_id: "pending", "unique" or "none"
  creating       \* position and locals of the create_room requests being served

vars == <<live, nextSid, session, active_users, is_online, members, messages,
          subs, emitted, received, pc, cur, faults, events, presence, request,
          rest, response, rooms, room_id_index, creating>>

\* ---- pure helpers ----

\* the payload taken without checking signature and expiry
verify_token_unchecked(token) == token.user_id

verify_token(token) == IF token.valid THEN token.user_id ELSE None

\* the credentials that verify and name a stored user
ValidTokens == {token \in Tokens : verify_token(token) \in users_collection}

RECURSIVE lstrip(_)
lstrip(s) == IF s # <<>> /\ Head(s) = " " THEN lstrip(Tail(s)) ELSE s

RECURSIVE rstrip(_)
rstrip(s) ==
  IF s # <<>> /\ s[Len(s)] = " " THEN rstrip(SubSeq(s, 1, Len(s) - 1)) ELSE s

\* the content taken as it comes, not trimmed
strip_untrimmed(s) == s

strip(s) == rstrip(lstrip(s))

\* str.upper, character by character
upper_char(ch) ==
  CASE ch = "a" -> "A" [] ch = "b" -> "B" [] ch = "c" -> "C" [] ch = "d" -> "D"
    [] OTHER -> ch
upper(s) == [i \in 1..Len(s) |-> upper_char(s[i])]

\* data['room_id'].strip().upper()
normalize(s) == upper(strip(s))

\* rooms_collection.find_one({'room_id': code, 'type': 'private', 'is_active': True})
find_private(code) ==
  {r \in DOMAIN room_code : RoomType[r] = "private" /\ room_code[r] = code}

\* the membership test answering no for everybody
is_member_never(room, user) == FALSE

is_member(room, user) == \E i \in 1..Len(members[room]) : members[room][i].user_id = user

Member(user, role) == [user_id |-> user, role |-> role]

Ev(ev, msg, user, room, mid, content) ==
  [ev |-> ev, msg |-> msg, user |-> user, room |-> room, mid |-> mid, content |-> content]

\* emit('error', {'message': msg}); for a store exception msg is str(e),
\* modelled by the name of the call that raised
ErrorEv(msg) == Ev("error", msg, None, "", 0, <<>>)
AuthErrorEv(msg) == Ev("auth_error", msg, None, "", 0, <<>>)
UserEv(ev, user, room) == Ev(ev, "", user, room, 0, <<>>)

NoCur == [user |-> None, room |-> "", content |-> <<>>, is_member |-> FALSE, mid |-> 0]

\* a step that emits nothing
NoEmit == [k \in Conns |-> <<>>]

\* emit(...) inside a handler: to the connection of the handler only
EmitSelf(c, e) == [k \in Conns |-> IF k = c /\ k \in live THEN <<e>> ELSE <<>>]

\* emit(..., room=room, include_self=False) / socketio.emit(..., room=room)
\* with skip = 0: to the connections subscribed to the room, except skip
EmitRoom(room, skip, e) ==
  [k \in Conns |-> IF k \in subs[room] /\ k \in live /\ k # skip
                   THEN <<e>> ELSE <<>>]

\* socketio.emit(...) without a room: to every connected client
EmitAll(e) == [k \in Conns |-> IF k \in live THEN <<e>> ELSE <<>>]

\* socketio_token_required: the outcome of the decorator for connection c
socketio_token_required(c) ==
  IF session[c] = None THEN "Authentication required"
  ELSE IF session[c] \notin users_collection THEN "User not found"
  ELSE "ok"

Idle(c) == pc[c] = "idle"
NoRest == [pc |-> "idle", user |-> None, room |-> ""]
Response(status, msg, room) == [status |-> status, msg |-> msg, room |-> room]
NoResponse == Response(0, "", "")
NoCreate == [pc |-> "idle", user |-> None, name |-> <<>>, type |-> "", room_id |-> <<>>]
AllIdle == (\A c \in Conns : Idle(c)) /\ rest.pc = "idle"
Finish(c) == /\ pc' = [pc EXCEPT ![c] = "idle"]
             /\ cur' = [cur EXCEPT ![c] = NoCur]
Goto(c, label, locals) == /\ pc' = [pc EXCEPT ![c] = label]
                          /\ cur' = [cur EXCEPT ![c] = locals]
Request(c, event, token, room_id, content) ==
  [sid |-> c, event |-> event, token |-> token, room_id |-> room_id, content |-> content]
NoRequest == Request(0, "", NoToken, "", <<>>)
Begin(c, event, token, room_id, content) ==
  /\ c \in live
  /\ Idle(c)
  /\ events' = events + 1
  /\ request' = Request(c, event, token, room_id, content)
CanFault == faults < MaxFaults
Fault == faults' = faults + 1

Init ==
  /\ live = {}
  /\ nextSid = 1
  /\ session = [c \in Conns |-> None]
  /\ active_users = [c \in Conns |-> None]
  /\ is_online = [u \in users_collection |-> FALSE]
  /\ members = [r \in rooms_collection |-> << Member("U1", "admin") >>]
  /\ messages = <<>>
  /\ subs = [r \in RoomKeys |-> {}]
  /\ emitted = NoEmit
  /\ received = [c \in Conns |-> <<>>]
  /\ pc = [c \in Conns |-> "idle"]
  /\ cur = [c \in Conns |-> NoCur]
  /\ faults = 0
  /\ events = 0
  /\ presence = [u \in users_collection |-> None]
  /\ request = NoRequest
  /\ rest = NoRest
  /\ response = NoResponse
  /\ rooms = <<>>
  /\ room_id_index = "pending"
  /\ creating = [k \in Creators |-> NoCreate]

\* ---- connect ----

handle_connect ==
  /\ nextSid <= MaxConns
  /\ nextSid' = nextSid + 1
  /\ live' = live \cup {nextSid}
  /\ request' = Request(nextSid, "connect", NoToken, "", <<>>)
  /\ emitted' = [NoEmit EXCEPT ![nextSid] = <<Ev("connected", "", None, "", 0, <<>>)>>]
  /\ UNCHANGED <<received, session, active_users, is_online, members, messages, subs,
                 pc, cur, faults, events, presence>>
  /\ response' = NoResponse
  /\ UNCHANGED <<rest, rooms, room_id_index, creating>>

\* ---- authenticate ----

\* token check, verify_token, users_collection.find_one
handle_authenticate(c, token) ==
  /\ Begin(c, "authenticate", token, "", <<>>)
  /\ \/ /\ token = NoToken
        /\ emitted' = EmitSelf(c, AuthErrorEv("Token required"))
        /\ Finish(c)
        /\ UNCHANGED faults
     \/ /\ token # NoToken
        /\ verify_token(token) = None
        /\ emitted' = EmitSelf(c, AuthErrorEv("Invalid token"))
        /\ Finish(c)
        /\ UNCHANGED faults
     \/ /\ token # NoToken
        /\ verify_token(token) # None
        /\ \/ /\ verify_token(token) \notin users_collection
              /\ emitted' = EmitSelf(c, AuthErrorEv("User not found"))
              /\ Finish(c)
              /\ UNCHANGED faults
           \/ /\ verify_token(token) \in users_collection
              /\ Goto(c, "auth_update", [NoCur EXCEPT !.user = verify_token(token)])
              /\ emitted' = NoEmit
        /\ UNCHANGED faults
           \/ /\ CanFault
              /\ Fault
              /\ emitted' = EmitSelf(c, AuthErrorEv("find_one"))
              /\ Finish(c)
  /\ UNCHANGED <<received, live, nextSid, session, active_users, is_online, members,
                 messages, subs, presence>>
  /\ response' = NoResponse
  /\ UNCHANGED <<rest, rooms, room_id_index, creating>>

\* session['auth_data'] = ...; users_collection.update_one(is_online: True)
handle_authenticate_update(c) ==
  /\ pc[c] = "auth_update"
  /\ session' = [session EXCEPT ![c] = cur[c].user]
  /\ \/ /\ is_online' = [is_online EXCEPT ![cur[c].user] = TRUE]
        /\ Goto(c, "auth_register", cur[c])
        /\ emitted' = NoEmit
        /\ UNCHANGED faults
     \/ /\ CanFault
        /\ Fault
        /\ emitted' = EmitSelf(c, AuthErrorEv("update_one"))
        /\ Finish(c)
        /\ UNCHANGED is_online
  /\ UNCHANGED <<request, received, live, nextSid, active_users, members, messages, subs,
                 events, presence>>
  /\ response' = NoResponse
  /\ UNCHANGED <<rest, rooms, room_id_index, creating>>

\* active_users[request.sid] = ...; emit('authenticated', ...)
handle_authenticate_register(c) ==
  /\ pc[c] = "auth_register"
  /\ active_users' = [active_users EXCEPT ![c] = cur[c].user]
  /\ emitted' = EmitSelf(c, UserEv("authenticated", cur[c].user, ""))
  /\ Goto(c, "auth_broadcast", cur[c])
  /\ UNCHANGED <<request, received, live, nextSid, session, is_online, members, messages, subs,
                 faults, events, presence>>
  /\ response' = NoResponse
  /\ UNCHANGED <<rest, rooms, room_id_index, creating>>

\* socketio.emit('user_online', ...)
handle_authenticate_broadcast(c) ==
  /\ pc[c] = "auth_broadcast"
  /\ emitted' = EmitAll(UserEv("user_online", cur[c].user, ""))
  /\ presence' = [presence EXCEPT ![cur[c].user] = "user_online"]
  /\ Finish(c)
  /\ UNCHANGED <<request, received, live, nextSid, session, active_users, is_online, members,
                 messages, subs, faults, events>>
  /\ response' = NoResponse
  /\ UNCHANGED <<rest, rooms, room_id_index, creating>>

\* ---- the gate of the socket handlers ----

\* The decorator's outcomes that end the handler: its error emits, and a
\* store exception in its find_one, which no except clause catches (nothing
\* is emitted).
Rejected(c) ==
  /\ \/ /\ socketio_token_required(c) # "ok"
        /\ emitted' = EmitSelf(c, ErrorEv(socketio_token_required(c)))
        /\ UNCHANGED faults
     \/ /\ session[c] # None
        /\ CanFault
        /\ Fault
        /\ emitted' = NoEmit
  /\ Finish(c)

Admitted(c) == socketio_token_required(c) = "ok"

\* ---- join_room ----

\* room_id check, ObjectId(room_id), rooms_collection.find_one, is_member
handle_join_room(c, room_id) ==
  /\ Begin(c, "join_room", NoToken, room_id, <<>>)
  /\ \/ Rejected(c)
     \/ /\ Admitted(c)
        /\ \/ /\ room_id = ""
              /\ emitted' = EmitSelf(c, ErrorEv("Room ID required"))
              /\ Finish(c)
              /\ UNCHANGED faults
           \/ /\ room_id # ""
              /\ room_id \notin WellFormedIds
              /\ emitted' = EmitSelf(c, ErrorEv("Invalid room ID"))
              /\ Finish(c)
              /\ UNCHANGED faults
           \/ /\ room_id \in WellFormedIds
              /\ \/ /\ room_id \notin rooms_collection
                    /\ emitted' = EmitSelf(c, ErrorEv("Room not found"))
                    /\ Finish(c)
                    /\ UNCHANGED faults
                 \/ /\ room_id \in rooms_collection
                    /\ Goto(c, IF is_member(room_id, session[c])
                               THEN "join_subscribe" ELSE "join_persist",
                            [NoCur EXCEPT !.user = session[c], !.room = room_id,
                                          !.is_member = is_member(room_id, session[c])])
                    /\ emitted' = NoEmit
        /\ UNCHANGED faults
                 \/ /\ CanFault
                    /\ Fault
                    /\ emitted' = EmitSelf(c, ErrorEv("find_one"))
                    /\ Finish(c)
  /\ UNCHANGED <<received, live, nextSid, session, active_users, is_online, members,
                 messages, subs, presence>>
  /\ response' = NoResponse
  /\ UNCHANGED <<rest, rooms, room_id_index, creating>>

\* rooms_collection.update_one($push members), taken when not is_member
handle_join_room_persist(c) ==
  /\ pc[c] = "join_persist"
  /\ \/ /\ members' = [members EXCEPT ![cur[c].room] =
                         Append(@, Member(cur[c].user, "member"))]
        /\ Goto(c, "join_subscribe", cur[c])
        /\ emitted' = NoEmit
        /\ UNCHANGED faults
     \/ /\ CanFault
        /\ Fault
        /\ emitted' = EmitSelf(c, ErrorEv("update_one"))
        /\ Finish(c)
        /\ UNCHANGED members
  /\ UNCHANGED <<request, received, live, nextSid, session, active_users, is_online, messages,
                 subs, events, presence>>
  /\ response' = NoResponse
  /\ UNCHANGED <<rest, rooms, room_id_index, creating>>

\* join_room(room_id); emit('room_joined', ...)
handle_join_room_subscribe(c) ==
  /\ pc[c] = "join_subscribe"
  /\ subs' = [subs EXCEPT ![cur[c].room] = @ \cup {c}]
  /\ emitted' = EmitSelf(c, UserEv("room_joined", None, cur[c].room))
  /\ Goto(c, "join_notify", cur[c])
  /\ UNCHANGED <<request, received, live, nextSid, session, active_users, is_online, members,
                 messages, faults, events, presence>>
  /\ response' = NoResponse
  /\ UNCHANGED <<rest, rooms, room_id_index, creating>>

\* user_joined_room emitted without include_self=False
handle_join_room_notify_all(c) ==
  /\ pc[c] = "join_notify"
  /\ emitted' = EmitRoom(cur[c].room, 0,
                        UserEv("user_joined_room", cur[c].user, cur[c].room))
  /\ Finish(c)
  /\ UNCHANGED <<request, received, live, nextSid, session, active_users, is_online, members,
                 messages, subs, faults, events, presence>>
  /\ response' = NoResponse
  /\ UNCHANGED <<rest, rooms, room_id_index, creating>>

\* emit('user_joined_room', ..., room=room_id, include_self=False)
handle_join_room_notify(c) ==
  /\ pc[c] = "join_notify"
  /\ emitted' = EmitRoom(cur[c].room, c,
                        UserEv("user_joined_room", cur[c].user, cur[c].room))
  /\ Finish(c)
  /\ UNCHANGED <<request, received, live, nextSid, session, active_users, is_online, members,
                 messages, subs, faults, events, presence>>
  /\ response' = NoResponse
  /\ UNCHANGED <<rest, rooms, room_id_index, creating>>

\* ---- leave_room ----

\* leave_room that also pulls the membership record of the user
handle_leave_room_pull(c, room_id) ==
  /\ Begin(c, "leave_room", NoToken, room_id, <<>>)
  /\ \/ /\ Rejected(c)
        /\ UNCHANGED <<subs, members>>
     \/ /\ Admitted(c)
        /\ \/ /\ room_id = ""
              /\ emitted' = EmitSelf(c, ErrorEv("Room ID required"))
              /\ Finish(c)
              /\ UNCHANGED <<subs, members>>
           \/ /\ room_id # ""
              /\ subs' = [subs EXCEPT ![room_id] = @ \ {c}]
              /\ members' = [r \in rooms_collection |->
                               IF r = room_id
                               THEN SelectSeq(members[r],
                                              LAMBDA m : m.user_id # session[c])
                               ELSE members[r]]
              /\ emitted' = EmitSelf(c, UserEv("room_left", None, room_id))
              /\ Goto(c, "leave_notify",
                      [NoCur EXCEPT !.user = session[c], !.room = room_id])
        /\ UNCHANGED faults
  /\ UNCHANGED <<received, live, nextSid, session, active_users, is_online,
                 messages, presence>>
  /\ response' = NoResponse
  /\ UNCHANGED <<rest, rooms, room_id_index, creating>>

\* room_id check; leave_room(room_id); emit('room_left', ...)
handle_leave_room(c, room_id) ==
  /\ Begin(c, "leave_room", NoToken, room_id, <<>>)
  /\ \/ /\ Rejected(c)
        /\ UNCHANGED subs
     \/ /\ Admitted(c)
        /\ \/ /\ room_id = ""
              /\ emitted' = EmitSelf(c, ErrorEv("Room ID required"))
              /\ Finish(c)
              /\ UNCHANGED subs
           \/ /\ room_id # ""
              /\ subs' = [subs EXCEPT ![room_id] = @ \ {c}]
              /\ emitted' = EmitSelf(c, UserEv("room_left", None, room_id))
              /\ Goto(c, "leave_notify",
                      [NoCur EXCEPT !.user = session[c], !.room = room_id])
        /\ UNCHANGED faults
  /\ UNCHANGED <<received, live, nextSid, session, active_users, is_online, members,
                 messages, presence>>
  /\ response' = NoResponse
  /\ UNCHANGED <<rest, rooms, room_id_index, creating>>

\* the leave_room handler ending without the user_left_room emit
handle_leave_room_notify_none(c) ==
  /\ pc[c] = "leave_notify"
  /\ emitted' = NoEmit
  /\ Finish(c)
  /\ UNCHANGED <<request, received, live, nextSid, session, active_users, is_online, members,
                 messages, subs, faults, events, presence>>
  /\ response' = NoResponse
  /\ UNCHANGED <<rest, rooms, room_id_index, creating>>

\* emit('user_left_room', ..., room=room_id, include_self=False)
handle_leave_room_notify(c) ==
  /\ pc[c] = "leave_notify"
  /\ emitted' = EmitRoom(cur[c].room, c,
                        UserEv("user_left_room", cur[c].user, cur[c].room))
  /\ Finish(c)
  /\ UNCHANGED <<request, received, live, nextSid, session, active_users, is_online, members,
                 messages, subs, faults, events, presence>>
  /\ response' = NoResponse
  /\ UNCHANGED <<rest, rooms, room_id_index, creating>>

\* ---- send_message ----

\* send_message without the find_one of the room: any well-formed id passes
handle_send_message_unresolved(c, room_id, content) ==
  /\ Begin(c, "send_message", NoToken, room_id, content)
  /\ \/ Rejected(c)
     \/ /\ Admitted(c)
        /\ \/ /\ (room_id = "" \/ strip(content) = <<>>)
              /\ emitted' = EmitSelf(c, ErrorEv("Room ID and content are required"))
              /\ Finish(c)
           \/ /\ room_id # ""
              /\ strip(content) # <<>>
              /\ room_id \notin WellFormedIds
              /\ emitted' = EmitSelf(c, ErrorEv("Invalid room ID"))
              /\ Finish(c)
           \/ /\ room_id \in WellFormedIds
              /\ strip(content) # <<>>
              /\ Goto(c, "send_persist",
                      [NoCur EXCEPT !.user = session[c], !.room = room_id,
                                    !.content = strip(content)])
              /\ emitted' = NoEmit
        /\ UNCHANGED faults
  /\ UNCHANGED <<received, live, nextSid, session, active_users, is_online, members,
                 messages, subs, presence>>
  /\ response' = NoResponse
  /\ UNCHANGED <<rest, rooms, room_id_index, creating>>

\* room_id and content check, ObjectId(room_id), rooms_collection.find_one
handle_send_message(c, room_id, content) ==
  /\ Begin(c, "send_message", NoToken, room_id, content)
  /\ \/ Rejected(c)
     \/ /\ Admitted(c)
        /\ \/ /\ (room_id = "" \/ strip(content) = <<>>)
              /\ emitted' = EmitSelf(c, ErrorEv("Room ID and content are required"))
              /\ Finish(c)
              /\ UNCHANGED faults
           \/ /\ room_id # ""
              /\ strip(content) # <<>>
              /\ \/ /\ room_id \notin WellFormedIds
                    /\ emitted' = EmitSelf(c, ErrorEv("Invalid room ID"))
                    /\ Finish(c)
                    /\ UNCHANGED faults
                 \/ /\ room_id \in WellFormedIds
                    /\ room_id \notin rooms_collection
                    /\ emitted' = EmitSelf(c, ErrorEv("Room not found"))
                    /\ Finish(c)
                    /\ UNCHANGED faults
                 \/ /\ room_id \in rooms_collection
                    /\ Goto(c, "send_persist",
                            [NoCur EXCEPT !.user = session[c], !.room = room_id,
                                          !.content = strip(content)])
                    /\ emitted' = NoEmit
        /\ UNCHANGED faults
                 \/ /\ room_id \in WellFormedIds
                    /\ CanFault
                    /\ Fault
                    /\ emitted' = EmitSelf(c, ErrorEv("find_one"))
                    /\ Finish(c)
  /\ UNCHANGED <<received, live, nextSid, session, active_users, is_online, members,
                 messages, subs, presence>>
  /\ response' = NoResponse
  /\ UNCHANGED <<rest, rooms, room_id_index, creating>>

\* the message inserted, then an error reported in place of the broadcast
handle_send_message_persist_then_fail(c) ==
  /\ pc[c] = "send_persist"
  /\ messages' = Append(messages, [room_id |-> cur[c].room,
                                    sender_id |-> cur[c].user,
                                    content |-> cur[c].content])
  /\ emitted' = EmitSelf(c, ErrorEv("emit"))
  /\ Finish(c)
  /\ UNCHANGED <<request, received, live, nextSid, session, active_users, is_online, members,
                 subs, faults, events, presence>>
  /\ response' = NoResponse
  /\ UNCHANGED <<rest, rooms, room_id_index, creating>>

\* the exception of insert_one swallowed: the handler goes on to broadcast
handle_send_message_persist_swallow(c) ==
  /\ pc[c] = "send_persist"
  /\ emitted' = NoEmit
  /\ \/ /\ messages' = Append(messages, [room_id |-> cur[c].room,
                                          sender_id |-> cur[c].user,
                                          content |-> cur[c].content])
        /\ UNCHANGED faults
     \/ /\ CanFault
        /\ Fault
        /\ UNCHANGED messages
  /\ Goto(c, "send_broadcast", [cur[c] EXCEPT !.mid = Len(messages) + 1])
  /\ UNCHANGED <<request, received, live, nextSid, session, active_users, is_online, members,
                 subs, events, presence>>
  /\ response' = NoResponse
  /\ UNCHANGED <<rest, rooms, room_id_index, creating>>

\* messages_collection.insert_one(message_doc)
handle_send_message_persist(c) ==
  /\ pc[c] = "send_persist"
  /\ \/ /\ messages' = Append(messages, [room_id |-> cur[c].room,
                                          sender_id |-> cur[c].user,
                                          content |-> cur[c].content])
        /\ Goto(c, "send_broadcast", [cur[c] EXCEPT !.mid = Len(messages) + 1])
        /\ emitted' = NoEmit
        /\ UNCHANGED faults
     \/ /\ CanFault
        /\ Fault
        /\ emitted' = EmitSelf(c, ErrorEv("insert_one"))
        /\ Finish(c)
        /\ UNCHANGED messages
  /\ UNCHANGED <<request, received, live, nextSid, session, active_users, is_online, members,
                 subs, events, presence>>
  /\ response' = NoResponse
  /\ UNCHANGED <<rest, rooms, room_id_index, creating>>

\* new_message emitted with include_self=False: the sender is skipped
handle_send_message_broadcast_others(c) ==
  /\ pc[c] = "send_broadcast"
  /\ emitted' = EmitRoom(cur[c].room, c,
                         Ev("new_message", "", cur[c].user, cur[c].room,
                            cur[c].mid, cur[c].content))
  /\ received' = [k \in Conns |->
                    IF k \in subs[cur[c].room] /\ k \in live /\ k # c
                    THEN Append(received[k], cur[c].mid) ELSE received[k]]
  /\ Finish(c)
  /\ UNCHANGED <<request, live, nextSid, session, active_users, is_online, members,
                 messages, subs, faults, events, presence>>
  /\ response' = NoResponse
  /\ UNCHANGED <<rest, rooms, room_id_index, creating>>

\* socketio.emit('new_message', message_data, room=room_id)
handle_send_message_broadcast(c) ==
  /\ pc[c] = "send_broadcast"
  /\ emitted' = EmitRoom(cur[c].room, 0,
                         Ev("new_message", "", cur[c].user, cur[c].room,
                            cur[c].mid, cur[c].content))
  /\ received' = [k \in Conns |->
                    IF k \in subs[cur[c].room] /\ k \in live
                    THEN Append(received[k], cur[c].mid) ELSE received[k]]
  /\ Finish(c)
  /\ UNCHANGED <<request, live, nextSid, session, active_users, is_online, members,
                 messages, subs, faults, events, presence>>
  /\ response' = NoResponse
  /\ UNCHANGED <<rest, rooms, room_id_index, creating>>

\* ---- typing, stop_typing ----

\* the indicator emitted without include_self=False
TypingIndicator_echo(c, room_id, event, ev) ==
  /\ Begin(c, event, NoToken, room_id, <<>>)
  /\ \/ Rejected(c)
     \/ /\ Admitted(c)
        /\ emitted' = IF room_id # ""
                     THEN EmitRoom(room_id, 0, UserEv(ev, session[c], room_id))
                     ELSE NoEmit
        /\ Finish(c)
        /\ UNCHANGED faults
  /\ UNCHANGED <<received, live, nextSid, session, active_users, is_online, members,
                 messages, subs, presence>>
  /\ response' = NoResponse
  /\ UNCHANGED <<rest, rooms, room_id_index, creating>>

TypingIndicator(c, room_id, event, ev) ==
  /\ Begin(c, event, NoToken, room_id, <<>>)
  /\ \/ Rejected(c)
     \/ /\ Admitted(c)
        /\ emitted' = IF room_id # ""
                     THEN EmitRoom(room_id, c, UserEv(ev, session[c], room_id))
                     ELSE NoEmit
        /\ Finish(c)
        /\ UNCHANGED faults
  /\ UNCHANGED <<received, live, nextSid, session, active_users, is_online, members,
                 messages, subs, presence>>
  /\ response' = NoResponse
  /\ UNCHANGED <<rest, rooms, room_id_index, creating>>

handle_typing(c, room_id) == TypingIndicator(c, room_id, "typing", "user_typing")

handle_stop_typing(c, room_id) == TypingIndicator(c, room_id, "stop_typing", "user_stop_typing")

\* ---- disconnect ----

\* The SocketIO server drops the connection's session and its room
\* subscriptions when the disconnect handler has returned.
Dropped(c) ==
  /\ subs' = [r \in RoomKeys |-> subs[r] \ {c}]
  /\ session' = [session EXCEPT ![c] = None]

\* transport closed; if request.sid in active_users
handle_disconnect(c) ==
  /\ c \in live
  /\ Idle(c)
  /\ events' = events + 1
  /\ request' = Request(c, "disconnect", NoToken, "", <<>>)
  /\ live' = live \ {c}
  /\ emitted' = NoEmit
  /\ IF active_users[c] # None
     THEN /\ Goto(c, "disc_update", [NoCur EXCEPT !.user = active_users[c]])
          /\ UNCHANGED <<subs, session>>
     ELSE /\ Finish(c)
          /\ Dropped(c)
  /\ UNCHANGED <<received, nextSid, active_users, is_online, members, messages,
                 faults, presence>>
  /\ response' = NoResponse
  /\ UNCHANGED <<rest, rooms, room_id_index, creating>>

\* users_collection.update_one(is_online: False); an exception ends the handler
handle_disconnect_update(c) ==
  /\ pc[c] = "disc_update"
  /\ emitted' = NoEmit
  /\ \/ /\ is_online' = [is_online EXCEPT ![cur[c].user] = FALSE]
        /\ Goto(c, "disc_broadcast", cur[c])
        /\ UNCHANGED <<faults, subs, session>>
     \/ /\ CanFault
        /\ Fault
        /\ Finish(c)
        /\ Dropped(c)
        /\ UNCHANGED is_online
  /\ UNCHANGED <<request, received, live, nextSid, active_users, members, messages,
                 events, presence>>
  /\ response' = NoResponse
  /\ UNCHANGED <<rest, rooms, room_id_index, creating>>

\* socketio.emit('user_offline', ...)
handle_disconnect_broadcast(c) ==
  /\ pc[c] = "disc_broadcast"
  /\ emitted' = EmitAll(UserEv("user_offline", cur[c].user, ""))
  /\ presence' = [presence EXCEPT ![cur[c].user] = "user_offline"]
  /\ Goto(c, "disc_remove", cur[c])
  /\ UNCHANGED <<request, received, live, nextSid, session, active_users, is_online, members,
                 messages, subs, faults, events>>
  /\ response' = NoResponse
  /\ UNCHANGED <<rest, rooms, room_id_index, creating>>

\* del active_users[request.sid]
handle_disconnect_remove(c) ==
  /\ pc[c] = "disc_remove"
  /\ active_users' = [active_users EXCEPT ![c] = None]
  /\ emitted' = NoEmit
  /\ Finish(c)
  /\ Dropped(c)
  /\ UNCHANGED <<request, received, live, nextSid, is_online, members, messages,
                 faults, events, presence>>
  /\ response' = NoResponse
  /\ UNCHANGED <<rest, rooms, room_id_index, creating>>

\* ---- POST /api/rooms/join-by-id ----

\* token_required: the 401 answer of the decorator for the presented token,
\* "ok" when the request is let through
token_required(token) ==
  IF token = NoToken THEN "Token is missing"
  ELSE IF verify_token(token) = None THEN "Token is invalid"
  ELSE IF verify_token(token) \notin users_collection THEN "User not found"
  ELSE "ok"

\* token_required, room_id check, strip().upper(), len check,
\* rooms_collection.find_one, is_member
join_room_by_id(token, code) ==
  /\ rest.pc = "idle"
  /\ events' = events + 1
  /\ request' = Request(0, "join_by_id", token, "", <<>>)
  /\ emitted' = NoEmit
  /\ \/ /\ token_required(token) # "ok"
        /\ response' = Response(401, token_required(token), "")
        /\ rest' = NoRest
        /\ UNCHANGED faults
     \/ /\ token # NoToken
        /\ verify_token(token) # None
        /\ CanFault
        /\ Fault
        /\ response' = Response(500, "Internal Server Error", "")
        /\ rest' = NoRest
     \/ /\ token_required(token) = "ok"
        /\ \/ /\ code = <<>>
              /\ response' = Response(400, "Room ID is required", "")
              /\ rest' = NoRest
              /\ UNCHANGED faults
           \/ /\ code # <<>>
              /\ Len(normalize(code)) # 8
              /\ response' = Response(400, "Invalid room ID format", "")
              /\ rest' = NoRest
              /\ UNCHANGED faults
           \/ /\ Len(normalize(code)) = 8
              /\ \/ /\ find_private(normalize(code)) = {}
                    /\ response' = Response(404, "Room not found", "")
                    /\ rest' = NoRest
                    /\ UNCHANGED faults
                 \/ \E room \in find_private(normalize(code)) :
                      /\ IF is_member(room, verify_token(token))
                         THEN /\ response' = Response(200, "already a member", room)
                              /\ rest' = NoRest
                         ELSE /\ response' = NoResponse
                              /\ rest' = [pc |-> "join_by_id_persist",
                                          user |-> verify_token(token), room |-> room]
                      /\ UNCHANGED faults
                 \/ /\ CanFault
                    /\ Fault
                    /\ response' = Response(500, "find_one", "")
                    /\ rest' = NoRest
  /\ UNCHANGED <<received, live, nextSid, session, active_users, is_online, members,
                 messages, subs, pc, cur, presence>>
  /\ UNCHANGED <<rooms, room_id_index, creating>>

\* the membership record pushed twice
join_room_by_id_persist_twice ==
  /\ rest.pc = "join_by_id_persist"
  /\ emitted' = NoEmit
  /\ rest' = NoRest
  /\ members' = [members EXCEPT ![rest.room] =
                   Append(Append(@, Member(rest.user, "member")),
                          Member(rest.user, "member"))]
  /\ response' = Response(200, "Successfully joined", rest.room)
  /\ UNCHANGED <<request, received, live, nextSid, session, active_users, is_online,
                 messages, subs, pc, cur, faults, events, presence>>
  /\ UNCHANGED <<rooms, room_id_index, creating>>

\* rooms_collection.update_one($push members); the 200 answer
join_room_by_id_persist ==
  /\ rest.pc = "join_by_id_persist"
  /\ emitted' = NoEmit
  /\ rest' = NoRest
  /\ \/ /\ members' = [members EXCEPT ![rest.room] =
                         Append(@, Member(rest.user, "member"))]
        /\ response' = Response(200, "Successfully joined", rest.room)
        /\ UNCHANGED faults
     \/ /\ CanFault
        /\ Fault
        /\ response' = Response(500, "update_one", "")
        /\ UNCHANGED members
  /\ UNCHANGED <<request, received, live, nextSid, session, active_users, is_online,
                 messages, subs, pc, cur, events, presence>>
  /\ UNCHANGED <<rooms, room_id_index, creating>>

\* ---- startup: the indexes ----

\* the __main__ block: rooms_collection.create_index('room_id', unique=True,
\* sparse=True); an exception is printed and the server starts without it
create_indexes ==
  /\ room_id_index = "pending"
  /\ \/ /\ room_id_index' = "unique"
        /\ UNCHANGED faults
     \/ /\ CanFault
        /\ Fault
        /\ room_id_index' = "none"
  /\ emitted' = NoEmit
  /\ response' = NoResponse
  /\ UNCHANGED <<request, received, live, nextSid, session, active_users, is_online,
                 members, messages, subs, pc, cur, events, presence, rest, rooms,
                 creating>>

\* ---- POST /api/rooms ----

\* rooms_collection.find_one({'room_id': code})
CodeInUse(code) ==
  \/ \E r \in DOMAIN room_code : room_code[r] = code
  \/ \E i \in 1..Len(rooms) : rooms[i].room_id = code

\* rooms_collection.find_one({'name': name, 'type': 'public'})
NameInUse(name) ==
  \/ name \in SeededNames
  \/ \E i \in 1..Len(rooms) : rooms[i].type = "public" /\ rooms[i].name = name

Answer(k, status, msg) ==
  /\ response' = Response(status, msg, "")
  /\ creating' = [creating EXCEPT ![k] = NoCreate]

\* token_required, name check, strip(), type check, find_one of the name of
\* a public room
create_room(k, token, name, type) ==
  /\ room_id_index # "pending"
  /\ creating[k].pc = "idle"
  /\ events' = events + 1
  /\ request' = Request(0, "create_room", token, "", <<>>)
  /\ emitted' = NoEmit
  /\ \/ /\ token_required(token) # "ok"
        /\ Answer(k, 401, token_required(token))
        /\ UNCHANGED faults
     \/ /\ token # NoToken
        /\ verify_token(token) # None
        /\ CanFault
        /\ Fault
        /\ Answer(k, 500, "Internal Server Error")
     \/ /\ token_required(token) = "ok"
        /\ \/ /\ name = <<>>
              /\ Answer(k, 400, "Room name is required")
              /\ UNCHANGED faults
           \/ /\ name # <<>>
              /\ type \notin {"public", "private"}
              /\ Answer(k, 400, "Room type must be public or private")
              /\ UNCHANGED faults
           \/ /\ name # <<>>
              /\ type = "public"
              /\ \/ /\ NameInUse(strip(name))
                    /\ Answer(k, 409, "Public room name already exists")
                    /\ UNCHANGED faults
                 \/ /\ ~NameInUse(strip(name))
                    /\ response' = NoResponse
                    /\ creating' = [creating EXCEPT ![k] =
                                      [pc |-> "create_insert", user |-> verify_token(token),
                                       name |-> strip(name), type |-> type,
                                       room_id |-> <<>>]]
                    /\ UNCHANGED faults
                 \/ /\ CanFault
                    /\ Fault
                    /\ Answer(k, 500, "find_one")
           \/ /\ name # <<>>
              /\ type = "private"
              /\ response' = NoResponse
              /\ creating' = [creating EXCEPT ![k] =
                                [pc |-> "create_generate", user |-> verify_token(token),
                                 name |-> strip(name), type |-> type,
                                 room_id |-> <<>>]]
              /\ UNCHANGED faults
  /\ UNCHANGED <<received, live, nextSid, session, active_users, is_online, members,
                 messages, subs, pc, cur, presence, rest, rooms, room_id_index>>

\* generate_room_id: one turn of the loop that draws a code which find_one
\* does not find, and returns it; a turn that draws a code in use changes
\* nothing
create_room_generate(k, code) ==
  /\ creating[k].pc = "create_generate"
  /\ emitted' = NoEmit
  /\ \/ /\ ~CodeInUse(code)
        /\ response' = NoResponse
        /\ creating' = [creating EXCEPT ![k].pc = "create_insert", ![k].room_id = code]
        /\ UNCHANGED faults
     \/ /\ CanFault
        /\ Fault
        /\ Answer(k, 500, "find_one")
  /\ UNCHANGED <<request, received, live, nextSid, session, active_users, is_online,
                 members, messages, subs, pc, cur, events, presence, rest, rooms,
                 room_id_index>>

\* rooms_collection.insert_one(room_doc); the unique index, where it
\* exists, refuses a second document with the same room_id
create_room_insert(k) ==
  /\ creating[k].pc = "create_insert"
  /\ emitted' = NoEmit
  /\ \/ /\ creating[k].type = "private"
        /\ room_id_index = "unique"
        /\ CodeInUse(creating[k].room_id)
        /\ Answer(k, 500, "duplicate key")
        /\ UNCHANGED <<rooms, faults>>
     \/ /\ ~(/\ creating[k].type = "private"
             /\ room_id_index = "unique"
             /\ CodeInUse(creating[k].room_id))
        /\ rooms' = Append(rooms, [name |-> creating[k].name, type |-> creating[k].type,
                                   room_id |-> creating[k].room_id,
                                   owner_id |-> creating[k].user])
        /\ Answer(k, 201, "Room created successfully")
        /\ UNCHANGED faults
     \/ /\ CanFault
        /\ Fault
        /\ Answer(k, 500, "insert_one")
        /\ UNCHANGED rooms
  /\ UNCHANGED <<request, received, live, nextSid, session, active_users, is_online,
                 members, messages, subs, pc, cur, events, presence, rest,
                 room_id_index>>

\* ---- specifications ----

\* handlers run one at a time, each to its end
Serial == AllIdle /\ events < MaxEvents

Next ==
  \/ Serial /\ handle_connect
  \/ \E c \in Conns, token \in Tokens : Serial /\ handle_authenticate(c, token)
  \/ \E c \in Conns, room_id \in RoomArgs : Serial /\ handle_join_room(c, room_id)
  \/ \E c \in Conns, room_id \in RoomArgs : Serial /\ handle_leave_room(c, room_id)
  \/ \E c \in Conns, room_id \in RoomArgs, content \in Contents :
        Serial /\ handle_send_message(c, room_id, content)
  \/ \E c \in Conns, room_id \in RoomArgs : Serial /\ handle_typing(c, room_id)
  \/ \E c \in Conns, room_id \in RoomArgs : Serial /\ handle_stop_typing(c, room_id)
  \/ \E c \in Conns : Serial /\ handle_disconnect(c)
  \/ \E token \in Tokens, code \in RoomCodes : Serial /\ join_room_by_id(token, code)
  \/ join_room_by_id_persist
  \/ \E c \in Conns : handle_authenticate_update(c)
  \/ \E c \in Conns : handle_authenticate_register(c)
  \/ \E c \in Conns : handle_authenticate_broadcast(c)
  \/ \E c \in Conns : handle_join_room_persist(c)
  \/ \E c \in Conns : handle_join_room_subscribe(c)
  \/ \E c \in Conns : handle_join_room_notify(c)
  \/ \E c \in Conns : handle_leave_room_notify(c)
  \/ \E c \in Conns : handle_send_message_persist(c)
  \/ \E c \in Conns : handle_send_message_broadcast(c)
  \/ \E c \in Conns : handle_disconnect_update(c)
  \/ \E c \in Conns : handle_disconnect_broadcast(c)
  \/ \E c \in Conns : handle_disconnect_remove(c)

Spec == Init /\ [][Next]_vars

\* a handler that has started runs on: the thread that serves it is
\* scheduled until the handler has returned
Continue ==
  \/ join_room_by_id_persist
  \/ \E c \in Conns :
       \/ handle_authenticate_update(c)
       \/ handle_authenticate_register(c)
       \/ handle_authenticate_broadcast(c)
       \/ handle_join_room_persist(c)
       \/ handle_join_room_subscribe(c)
       \/ handle_join_room_notify(c)
       \/ handle_leave_room_notify(c)
       \/ handle_send_message_persist(c)
       \/ handle_send_message_broadcast(c)
       \/ handle_disconnect_update(c)
       \/ handle_disconnect_broadcast(c)
       \/ handle_disconnect_remove(c)

SpecFair == Init /\ [][Next]_vars /\ WF_vars(Continue)

\* the socket handlers of different connections run concurrently, their
\* steps interleaved
Threaded == events < MaxConcEvents

NextConc ==
  \/ Threaded /\ handle_connect
  \/ \E c \in Conns, token \in Tokens : Threaded /\ handle_authenticate(c, token)
  \/ \E c \in Conns, room_id \in RoomArgs : Threaded /\ handle_join_room(c, room_id)
  \/ \E c \in Conns, room_id \in RoomArgs : Threaded /\ handle_leave_room(c, room_id)
  \/ \E c \in Conns, room_id \in RoomArgs, content \in Contents :
        Threaded /\ handle_send_message(c, room_id, content)
  \/ \E c \in Conns, room_id \in RoomArgs : Threaded /\ handle_typing(c, room_id)
  \/ \E c \in Conns, room_id \in RoomArgs : Threaded /\ handle_stop_typing(c, room_id)
  \/ \E c \in Conns : Threaded /\ handle_disconnect(c)
  \/ \E c \in Conns : handle_authenticate_update(c)
  \/ \E c \in Conns : handle_authenticate_register(c)
  \/ \E c \in Conns : handle_authenticate_broadcast(c)
  \/ \E c \in Conns : handle_join_room_persist(c)
  \/ \E c \in Conns : handle_join_room_subscribe(c)
  \/ \E c \in Conns : handle_join_room_notify(c)
  \/ \E c \in Conns : handle_leave_room_notify(c)
  \/ \E c \in Conns : handle_send_message_persist(c)
  \/ \E c \in Conns : handle_send_message_broadcast(c)
  \/ \E c \in Conns : handle_disconnect_update(c)
  \/ \E c \in Conns : handle_disconnect_broadcast(c)
  \/ \E c \in Conns : handle_disconnect_remove(c)

SpecConc == Init /\ [][NextConc]_vars

\* handlers run one at a time and every client sends well-formed data: a
\* credential that verifies, the id or code of an existing room, content
\* that is not blank; store calls still raise
SerialRooms == AllIdle /\ events < MaxRoomEvents

SentContents == {content \in Contents : strip(content) # <<>>}
SentCodes == {code \in RoomCodes : find_private(normalize(code)) # {}}

NextRooms ==
  \/ SerialRooms /\ handle_connect
  \/ \E c \in Conns, token \in ValidTokens : SerialRooms /\ handle_authenticate(c, token)
  \/ \E c \in Conns, room_id \in rooms_collection : SerialRooms /\ handle_join_room(c, room_id)
  \/ \E c \in Conns, room_id \in rooms_collection : SerialRooms /\ handle_leave_room(c, room_id)
  \/ \E c \in Conns, room_id \in rooms_collection, content \in SentContents :
        SerialRooms /\ handle_send_message(c, room_id, content)
  \/ \E c \in Conns, room_id \in rooms_collection : SerialRooms /\ handle_typing(c, room_id)
  \/ \E c \in Conns, room_id \in rooms_collection : SerialRooms /\ handle_stop_typing(c, room_id)
  \/ \E c \in Conns : SerialRooms /\ handle_disconnect(c)
  \/ \E token \in ValidTokens, code \in SentCodes :
        SerialRooms /\ join_room_by_id(token, code)
  \/ join_room_by_id_persist
  \/ \E c \in Conns : handle_authenticate_update(c)
  \/ \E c \in Conns : handle_authenticate_register(c)
  \/ \E c \in Conns : handle_authenticate_broadcast(c)
  \/ \E c \in Conns : handle_join_room_persist(c)
  \/ \E c \in Conns : handle_join_room_subscribe(c)
  \/ \E c \in Conns : handle_join_room_notify(c)
  \/ \E c \in Conns : handle_leave_room_notify(c)
  \/ \E c \in Conns : handle_send_message_persist(c)
  \/ \E c \in Conns : handle_send_message_broadcast(c)
  \/ \E c \in Conns : handle_disconnect_update(c)
  \/ \E c \in Conns : handle_disconnect_broadcast(c)
  \/ \E c \in Conns : handle_disconnect_remove(c)

SpecRooms == Init /\ [][NextRooms]_vars

\* the socket handlers and the join-by-id requests of clients that send
\* well-formed data run concurrently, their steps interleaved
NextRoomsConc ==
  \/ Threaded /\ handle_connect
  \/ \E c \in Conns, token \in ValidTokens : Threaded /\ handle_authenticate(c, token)
  \/ \E c \in Conns, room_id \in rooms_collection : Threaded /\ handle_join_room(c, room_id)
  \/ \E c \in Conns, room_id \in rooms_collection : Threaded /\ handle_leave_room(c, room_id)
  \/ \E c \in Conns, room_id \in rooms_collection, content \in SentContents :
        Threaded /\ handle_send_message(c, room_id, content)
  \/ \E c \in Conns, room_id \in rooms_collection : Threaded /\ handle_typing(c, room_id)
  \/ \E c \in Conns, room_id \in rooms_collection : Threaded /\ handle_stop_typing(c, room_id)
  \/ \E c \in Conns : Threaded /\ handle_disconnect(c)
  \/ \E token \in ValidTokens, code \in SentCodes :
        Threaded /\ join_room_by_id(token, code)
  \/ join_room_by_id_persist
  \/ \E c \in Conns : handle_authenticate_update(c)
  \/ \E c \in Conns : handle_authenticate_register(c)
  \/ \E c \in Conns : handle_authenticate_broadcast(c)
  \/ \E c \in Conns : handle_join_room_persist(c)
  \/ \E c \in Conns : handle_join_room_subscribe(c)
  \/ \E c \in Conns : handle_join_room_notify(c)
  \/ \E c \in Conns : handle_leave_room_notify(c)
  \/ \E c \in Conns : handle_send_message_persist(c)
  \/ \E c \in Conns : handle_send_message_broadcast(c)
  \/ \E c \in Conns : handle_disconnect_update(c)
  \/ \E c \in Conns : handle_disconnect_broadcast(c)
  \/ \E c \in Conns : handle_disconnect_remove(c)

SpecRoomsConc == Init /\ [][NextRoomsConc]_vars

\* the server starts and serves create_room requests concurrently
Creating == events < MaxCreates

NextCreate ==
  \/ create_indexes
  \/ \E k \in Creators, token \in Tokens, name \in RoomNames, type \in RoomTypeArgs :
        Creating /\ create_room(k, token, name, type)
  \/ \E k \in Creators, code \in GeneratedCodes : create_room_generate(k, code)
  \/ \E k \in Creators : create_room_insert(k)

SpecCreate == Init /\ [][NextCreate]_vars

\* ---- properties ----

\* a gated socket event of connection c arrives
GatedEvent(c) ==
  \E room_id \in RoomArgs :
    \/ handle_join_room(c, room_id)
    \/ handle_leave_room(c, room_id)
    \/ handle_typing(c, room_id)
    \/ handle_stop_typing(c, room_id)
    \/ \E content \in Contents : handle_send_message(c, room_id, content)

\* connections other than c that are open and bound to user u
OthersBound(c, u) == {k \in live \ {c} : active_users[k] = u}

\* C1: at most one authenticate succeeds per connection: on a connection
\* that has a bound identity (an authenticate of it has succeeded) a later
\* authenticate with a valid credential is rejected with an
\* AlreadyAuthenticated error, the handler ends there, and session auth_data
\* and the active_users entry keep their value while the connection lives.
C1_SingleBind ==
  [][\A c \in Conns :
       (active_users[c] # None /\ c \in live')
         => /\ (\E token \in ValidTokens : handle_authenticate(c, token))
                 => /\ emitted' = EmitSelf(c, AuthErrorEv("Already authenticated"))
                    /\ pc'[c] = "idle"
            /\ session'[c] = session[c]
            /\ active_users'[c] = active_users[c]
    ]_vars

\* C2: a gated event (join_room, leave_room, send_message, typing,
\* stop_typing) of a connection that has not successfully authenticated (no
\* authenticate handler of it ran to its end, so it has no active_users
\* entry) is answered by the authentication-required error to that
\* connection only and changes no state.
C2_UnauthenticatedRejected ==
  [][\A c \in Conns :
       (active_users[c] = None /\ GatedEvent(c))
         => /\ emitted' = EmitSelf(c, ErrorEv("Authentication required"))
            /\ pc'[c] = "idle"
            /\ UNCHANGED <<live, session, active_users, is_online, members,
                           messages, subs, received, presence>>
    ]_vars

\* C3: presence is reference-counted: while another open connection is
\* bound to the same user, a disconnect neither writes is_online = False
\* nor broadcasts user_offline; the disconnect of the last bound connection
\* has broadcast user_offline when it ends.
C3_PresenceRefCounted ==
  [][\A c \in Conns :
       /\ (handle_disconnect_update(c) /\ OthersBound(c, cur[c].user) # {})
            => is_online'[cur[c].user]
       /\ handle_disconnect_broadcast(c) => OthersBound(c, cur[c].user) = {}
       /\ (handle_disconnect_remove(c) /\ OthersBound(c, cur[c].user) = {})
            => presence[cur[c].user] = "user_offline"
    ]_vars

\* C4: user_online is broadcast for a user only on the transition from no
\* bound open connection to one: an authenticate that binds a further
\* connection to a user who is already online broadcasts no user_online.
C4_OnlineOncePerTransition ==
  [][\A c \in Conns :
       handle_authenticate_broadcast(c) => OthersBound(c, cur[c].user) = {}
    ]_vars

\* C5: when the disconnect handler of a connection bound to U and the
\* authenticate handler of another connection presenting U's credential
\* have both ended, in whatever interleaving, U is not reported offline
\* (last presence event user_offline, or is_online false in the store)
\* while an open connection is bound to U.
C5_NoFalseOffline ==
  \A u \in users_collection, c2 \in Conns :
    (AllIdle /\ c2 \in live /\ active_users[c2] = u /\ session[c2] = u)
      => /\ is_online[u]
         /\ presence[u] # "user_offline"

\* C6: a join_room event for a private room from an authenticated identity
\* that is not a persisted member of the room is rejected with AccessDenied:
\* the handler ends there, no membership record is added and the connection
\* is not subscribed.
C6_PrivateJoinDenied ==
  [][\A c \in Conns, room_id \in rooms_collection :
       (/\ RoomType[room_id] = "private"
        /\ Admitted(c)
        /\ ~is_member(room_id, session[c])
        /\ handle_join_room(c, room_id)
        /\ faults' = faults)
         => /\ emitted' = EmitSelf(c, ErrorEv("Access denied"))
            /\ pc'[c] = "idle"
            /\ UNCHANGED <<members, subs>>
    ]_vars

\* C7: a message is persisted, and new_message broadcast, only for a sender
\* whose connection is subscribed to the target room or whose identity is a
\* persisted member of it (every authenticated identity counting as a
\* member of a public room).
C7_SendNeedsMembership ==
  [][\A c \in Conns :
       (\/ handle_send_message_persist(c) /\ messages' # messages
        \/ handle_send_message_broadcast(c))
         => \/ c \in subs[cur[c].room]
            \/ is_member(cur[c].room, cur[c].user)
            \/ RoomType[cur[c].room] = "public"
    ]_vars

\* C8: every connection gets the new_message events of one room in the
\* order in which the messages were persisted (message ids are assigned in
\* persistence order).
C8_RoomOrder ==
  \A k \in Conns :
    \A i, j \in 1..Len(received[k]) :
      (i < j /\ messages[received[k][i]].room_id = messages[received[k][j]].room_id)
        => received[k][i] < received[k][j]

\* content that is empty after trimming whitespace
IsBlank(content) == \A i \in 1..Len(content) : content[i] = " "

\* C9: a send_message whose content is empty after trimming fails
\* validation: the handler ends with the validation error to the sender
\* only, nothing is persisted and nothing is broadcast; no persisted message
\* ever has blank content.
C9_BlankContentRejected ==
  [][/\ (/\ request'.event = "send_message"
         /\ IsBlank(request'.content)
         /\ Admitted(request'.sid)
         /\ faults' = faults)
          => /\ emitted' = EmitSelf(request'.sid,
                                    ErrorEv("Room ID and content are required"))
             /\ pc'[request'.sid] = "idle"
             /\ UNCHANGED <<messages, received>>
     /\ \A i \in 1..Len(messages') : ~IsBlank(messages'[i].content)
    ]_vars

\* an authenticated connection sent whitespace-only content to an existing
\* room and got the validation error
C9_Witness ==
  /\ request.event = "send_message"
  /\ request.content # <<>>
  /\ IsBlank(request.content)
  /\ request.room_id \in rooms_collection
  /\ active_users[request.sid] # None
  /\ emitted = EmitSelf(request.sid, ErrorEv("Room ID and content are required"))
  /\ messages = <<>>

\* C10: a new_message event delivered to any connection carries a message
\* that was in messages_collection before the step that broadcast it; when
\* insert_one raises, the handler ends with an error to the sender only and
\* broadcasts nothing.
C10_BroadcastAfterPersist ==
  [][/\ \A k \in Conns :
          \A i \in 1..Len(emitted'[k]) :
            emitted'[k][i].ev = "new_message"
              => /\ emitted'[k][i].mid \in 1..Len(messages)
                 /\ messages[emitted'[k][i].mid] =
                      [room_id |-> emitted'[k][i].room,
                       sender_id |-> emitted'[k][i].user,
                       content |-> emitted'[k][i].content]
     /\ \A c \in Conns :
          (pc[c] = "send_persist" /\ pc'[c] # "send_persist" /\ faults' # faults)
            => /\ emitted' = EmitSelf(c, ErrorEv("insert_one"))
               /\ pc'[c] = "idle"
               /\ UNCHANGED <<messages, received>>
    ]_vars

\* insert_one has just raised for a send into a room to which the sender
\* itself is subscribed: the sender got the error and no new_message
C10_Witness ==
  /\ request.event = "send_message"
  /\ request.room_id \in rooms_collection
  /\ request.sid \in subs[request.room_id] \cap live
  /\ emitted = EmitSelf(request.sid, ErrorEv("insert_one"))
  /\ messages = <<>>

\* the new_message event of the message that handler c is about to broadcast
NewMessageEv(c) ==
  Ev("new_message", "", cur[c].user, cur[c].room, cur[c].mid, cur[c].content)

\* the indexes at which message id mid occurs in what connection k received
Deliveries(k, mid) == {i \in 1..Len(received[k]) : received[k][i] = mid}

\* C11: the broadcast step of a send_message delivers the new_message of
\* the persisted message exactly once to every open connection subscribed
\* to the room at that moment, the sender's included when it is subscribed,
\* and nothing to a connection that is not subscribed; no other step delivers
\* a new_message, and no connection ever gets the same message twice.
C11_ExactlyOncePerSubscriber ==
  [][/\ \A c \in Conns :
          (pc[c] = "send_broadcast" /\ pc'[c] # pc[c])
            => \A k \in Conns :
                 IF k \in subs[cur[c].room] \cap live
                 THEN /\ emitted'[k] = <<NewMessageEv(c)>>
                      /\ received'[k] = Append(received[k], cur[c].mid)
                 ELSE /\ emitted'[k] = <<>>
                      /\ received'[k] = received[k]
     /\ (\A c \in Conns : ~(pc[c] = "send_broadcast" /\ pc'[c] # pc[c]))
          => /\ received' = received
             /\ \A k \in Conns : \A i \in 1..Len(emitted'[k]) :
                  emitted'[k][i].ev # "new_message"
     /\ \A k \in Conns : \A i, j \in 1..Len(received'[k]) :
          received'[k][i] = received'[k][j] => i = j
    ]_vars

\* a message was broadcast to a room to which its sender and no other open
\* connection is subscribed: the sender got it once, the other nothing
C11_Witness ==
  \E c \in live, k \in live :
    /\ k # c
    /\ request.event = "send_message"
    /\ request.sid = c
    /\ request.room_id \in rooms_collection
    /\ c \in subs[request.room_id]
    /\ k \notin subs[request.room_id]
    /\ Len(messages) = 1
    /\ received[c] = <<1>>
    /\ received[k] = <<>>
    /\ Len(emitted[c]) = 1
    /\ emitted[c][1].ev = "new_message"
    /\ emitted[k] = <<>>

\* the step that ends the disconnect handler of connection c
DisconnectEnds(c) ==
  /\ c \notin live'
  /\ pc'[c] = "idle"
  /\ \/ pc[c] \in {"disc_update", "disc_broadcast", "disc_remove"}
     \/ c \in live

\* C12: when the disconnect handler of a connection bound to U ends and the
\* server takes the connection out of its rooms R1..Rn, every remaining
\* subscriber of each Ri is delivered user_left_room for (U, Ri), and the
\* connection is in no subscriber set afterwards.
C12_DisconnectLeavesRooms ==
  [][\A c \in Conns :
       (DisconnectEnds(c) /\ active_users[c] # None)
         => \A r \in RoomKeys :
              /\ c \notin subs'[r]
              /\ c \in subs[r]
                   => \A k \in (subs[r] \cap live') \ {c} :
                        \E i \in 1..Len(emitted'[k]) :
                          emitted'[k][i] = UserEv("user_left_room", active_users[c], r)
    ]_vars

\* C13: a join_room that passes validation subscribes the connection and
\* delivers room_joined to it and to nobody else, then delivers
\* user_joined_room for the joiner's identity once to each other open
\* connection subscribed to the room at that moment and nothing to the
\* joiner, which stays subscribed.
C13_JoinNotifications ==
  [][\A c \in Conns :
       /\ (pc[c] = "join_subscribe" /\ pc'[c] # pc[c])
            => /\ c \in subs'[cur[c].room]
               /\ \A k \in Conns :
                    emitted'[k] = IF k = c
                                  THEN <<UserEv("room_joined", None, cur[c].room)>>
                                  ELSE <<>>
               /\ pc'[c] = "join_notify"
       /\ (pc[c] = "join_notify" /\ pc'[c] # pc[c])
            => /\ c \in subs'[cur[c].room]
               /\ \A k \in Conns :
                    emitted'[k] =
                      IF k \in subs[cur[c].room] \cap live /\ k # c
                      THEN <<UserEv("user_joined_room", session[c], cur[c].room)>>
                      ELSE <<>>
               /\ pc'[c] = "idle"
    ]_vars

\* a join_room has ended in a room that had another subscriber: that one
\* got user_joined_room for the joiner, the joiner got none
C13_Witness ==
  \E c \in live, k \in live :
    /\ k # c
    /\ AllIdle
    /\ request.event = "join_room"
    /\ request.sid = c
    /\ request.room_id \in rooms_collection
    /\ {c, k} \subseteq subs[request.room_id]
    /\ emitted[k] = <<UserEv("user_joined_room", session[c], request.room_id)>>
    /\ emitted[c] = <<>>

\* the positions of the membership records of user in the members of room
Records(room, user) ==
  {i \in 1..Len(members[room]) : members[room][i].user_id = user}

\* C14: a join-by-id request of a stored user with a code that resolves to
\* a private room changes no membership list when the caller already is a
\* member (200, already a member); when the caller is no member it goes on
\* to the update, which appends exactly one record for the caller, with
\* role member, to the members of that room and to no other.
C14_JoinByCodeMembership ==
  [][/\ \A token \in Tokens, code \in SentCodes :
          (/\ token.valid
           /\ token.user_id \in users_collection
           /\ join_room_by_id(token, code)
           /\ faults' = faults)
            => /\ members' = members
               /\ IF Records("R2", token.user_id) # {}
                  THEN /\ response' = Response(200, "already a member", "R2")
                       /\ rest' = NoRest
                  ELSE rest' = [pc |-> "join_by_id_persist",
                                user |-> token.user_id, room |-> "R2"]
     /\ (rest.pc = "join_by_id_persist" /\ rest'.pc # rest.pc /\ faults' = faults)
          => /\ Records(rest.room, rest.user) = {}
             /\ members' = [members EXCEPT ![rest.room] =
                              Append(@, Member(rest.user, "member"))]
             /\ response' = Response(200, "Successfully joined", rest.room)
    ]_vars

\* with no socket connection ever opened, U2 asked twice to join R2 by its
\* code: the first request added the one record, the second none
C14_Witness ==
  /\ nextSid = 1
  /\ events = 2
  /\ request.event = "join_by_id"
  /\ request.token.user_id = "U2"
  /\ response = Response(200, "already a member", "R2")
  /\ Cardinality(Records("R2", "U2")) = 1
  /\ Len(members["R2"]) = 2

\* C15: whatever the interleaving of the join operations (join_room events
\* and join-by-id requests) for one user and one room, the members of the
\* room hold at most one record for the user.
C15_OneRecordPerMember ==
  \A r \in rooms_collection, u \in users_collection :
    Cardinality(Records(r, u)) <= 1

\* connection c is delivered an error or auth_error event
ErrorReported(c) ==
  \E i \in 1..Len(emitted'[c]) : emitted'[c][i].ev \in {"error", "auth_error"}

\* C16: the processing of an inbound event that ends by reporting error or
\* auth_error to the originating connection has changed no state; in
\* particular the step that reports the error and ends the handler leaves
\* session, active_users, the online flags, the members, the messages and
\* the subscriptions as they were, and delivers nothing to another
\* connection.
C16_ErrorLeavesStateUnchanged ==
  [][\A c \in Conns :
       (ErrorReported(c) /\ pc'[c] = "idle")
         => /\ UNCHANGED <<session, active_users, is_online, members, messages, subs>>
            /\ \A k \in Conns \ {c} : emitted'[k] = <<>>
    ]_vars

\* C17: once the disconnect handler of a connection has ended, whether or
\* not a store call raised in it, the connection has no active_users entry.
C17_DisconnectCleanupCompletes ==
  \A c \in Conns :
    (c < nextSid /\ c \notin live /\ Idle(c)) => active_users[c] = None

\* a step of the leave_room handler of connection c
LeaveStep(c) ==
  \/ /\ events' # events
     /\ request'.event = "leave_room"
     /\ request'.sid = c
  \/ /\ pc[c] = "leave_notify"
     /\ pc'[c] # pc[c]

\* C18: no step of a leave_room handler changes the members of any room.
C18_LeaveKeepsMembership ==
  [][(\E c \in Conns : LeaveStep(c)) => members' = members]_vars

\* U2, whose membership record of R1 was written by its join_room, has
\* left R1: the connection is no subscriber any more, the record is there
C18_Witness ==
  /\ AllIdle
  /\ request.event = "leave_room"
  /\ request.room_id = "R1"
  /\ request.sid \in live
  /\ session[request.sid] = "U2"
  /\ request.sid \notin subs["R1"]
  /\ members["R1"] = <<Member("U1", "admin"), Member("U2", "member")>>

\* C19: when a join_room handler has subscribed, and when it ends, the
\* connection is a subscriber of the room; from the first step of a
\* leave_room on, it is not.  Joining again changes nothing: a join_room of
\* a connection that is a subscriber, for an identity that is a member,
\* skips the update and leaves subscribers and members as they are, and
\* the update runs only for an identity that has no record.  Leaving a room
\* the connection is not subscribed to leaves the subscribers as they are.
C19_JoinLeaveIdempotent ==
  [][\A c \in Conns :
       /\ (pc[c] \in {"join_subscribe", "join_notify"} /\ pc'[c] # pc[c])
            => /\ c \in subs'[cur[c].room]
               /\ members' = members
               /\ c \in subs[cur[c].room] => subs' = subs
       /\ (pc[c] = "join_persist" /\ pc'[c] # pc[c])
            => Records(cur[c].room, cur[c].user) = {}
       /\ (/\ events' # events
           /\ request'.event = "join_room"
           /\ request'.sid = c
           /\ request'.room_id \in rooms_collection
           /\ Admitted(c)
           /\ faults' = faults
           /\ c \in subs[request'.room_id]
           /\ Records(request'.room_id, session[c]) # {})
            => /\ pc'[c] = "join_subscribe"
               /\ UNCHANGED <<subs, members>>
       /\ (/\ events' # events
           /\ request'.event = "leave_room"
           /\ request'.sid = c
           /\ request'.room_id # ""
           /\ Admitted(c)
           /\ faults' = faults)
            => /\ c \notin subs'[request'.room_id]
               /\ c \notin subs[request'.room_id] => subs' = subs
       /\ (pc[c] = "leave_notify" /\ pc'[c] # pc[c])
            => /\ c \notin subs'[cur[c].room]
               /\ subs' = subs
    ]_vars

\* the only connection, bound to U2 and subscribed to R1 by its second
\* event, is in its third event, a second join_room of R1, past the
\* subscribe step: one record of U2, the connection subscribed
C19_Witness ==
  /\ nextSid = 2
  /\ events = 3
  /\ pc[1] = "join_notify"
  /\ cur[1].room = "R1"
  /\ cur[1].user = "U2"
  /\ cur[1].is_member
  /\ subs["R1"] = {1}
  /\ members["R1"] = <<Member("U1", "admin"), Member("U2", "member")>>

\* the messages of auth_error that a failed verification produces
VerificationErrors == {"Token required", "Invalid token", "User not found"}

\* C20: an authenticate whose credential is missing, does not verify or
\* names no stored user ends with one auth_error to that connection only
\* and changes neither session nor active_users nor any stored state;
\* whatever happened on the connection before, an authenticate with a
\* credential that verifies and names a stored user is taken up, binds the
\* connection to that user and answers authenticated.
C20_FailedAuthRecoverable ==
  [][\A c \in Conns :
       /\ (/\ events' # events
           /\ request'.event = "authenticate"
           /\ request'.sid = c
           /\ faults' = faults)
            => IF request'.token.valid /\ request'.token.user_id \in users_collection
               THEN /\ pc'[c] = "auth_update"
                    /\ cur'[c].user = request'.token.user_id
               ELSE /\ pc'[c] = "idle"
                    /\ \E msg \in VerificationErrors :
                         emitted' = [k \in Conns |->
                                       IF k = c THEN <<AuthErrorEv(msg)>> ELSE <<>>]
                    /\ UNCHANGED <<session, active_users, is_online, members,
                                   messages, subs, presence>>
       /\ (pc[c] = "auth_update" /\ pc'[c] # pc[c] /\ faults' = faults)
            => /\ pc'[c] = "auth_register"
               /\ session'[c] = cur[c].user
       /\ (pc[c] = "auth_register" /\ pc'[c] # pc[c])
            => /\ active_users'[c] = cur[c].user
               /\ session'[c] = cur[c].user
               /\ emitted' = [k \in Conns |->
                                IF k = c
                                THEN <<UserEv("authenticated", cur[c].user, "")>>
                                ELSE <<>>]
    ]_vars

\* a connection that is not bound presented a credential that does not
\* verify, as its second event: it got auth_error and is still not bound
C20_Witness ==
  /\ events = 2
  /\ request.event = "authenticate"
  /\ request.sid \in live
  /\ request.token = [user_id |-> "U1", valid |-> FALSE]
  /\ emitted = EmitSelf(request.sid, AuthErrorEv("Invalid token"))
  /\ session[request.sid] = None
  /\ active_users[request.sid] = None
  /\ AllIdle

\* the step that starts the handler of an inbound event of the named kinds
Starts(kinds) == events' # events /\ request'.event \in kinds

\* C21: a join_room or send_message whose room id is missing, malformed or
\* the id of no room ends in its first step, leaves members, subscriptions,
\* messages and deliveries as they were, and delivers nothing to any
\* connection but the one that sent it.
C21_BadRoomIdChangesNothing ==
  [][(Starts({"join_room", "send_message"}) /\ request'.room_id \notin rooms_collection)
       => /\ UNCHANGED <<members, subs, messages, received>>
          /\ pc'[request'.sid] = "idle"
          /\ \A k \in Conns \ {request'.sid} : emitted'[k] = <<>>
    ]_vars

\* an authenticated connection has just sent a message with content to a
\* well-formed id of no room: it got "Room not found", nothing was stored
C21_Witness ==
  /\ request.event = "send_message"
  /\ request.room_id \in WellFormedIds \ rooms_collection
  /\ strip(request.content) # <<>>
  /\ active_users[request.sid] # None
  /\ emitted = EmitSelf(request.sid, ErrorEv("Room not found"))
  /\ Idle(request.sid)
  /\ messages = <<>>

\* the event that a typing or stop_typing of connection c for room delivers
IndicatorEv(event, c, room) ==
  UserEv(IF event = "typing" THEN "user_typing" ELSE "user_stop_typing",
         session[c], room)

\* C22: a typing or stop_typing event is served in one step that changes no
\* stored or connection state and never delivers an indicator event to its
\* originator; when no store call fails, an admitted originator that names
\* a room makes every other open subscriber of the room receive exactly the
\* indicator event, and the originator and every connection that is not
\* subscribed receive nothing; otherwise no other connection receives
\* anything.
C22_TypingTransient ==
  [][Starts({"typing", "stop_typing"})
       => LET c == request'.sid
              room == request'.room_id
          IN /\ UNCHANGED <<members, messages, subs, active_users, session,
                            is_online, received, presence, live>>
             /\ pc'[c] = "idle"
             /\ \A i \in 1..Len(emitted'[c]) :
                  emitted'[c][i].ev \notin {"user_typing", "user_stop_typing"}
             /\ IF Admitted(c) /\ room # "" /\ faults' = faults
                THEN /\ emitted'[c] = <<>>
                     /\ \A k \in Conns \ {c} :
                          emitted'[k] = IF k \in subs[room] \cap live
                                        THEN <<IndicatorEv(request'.event, c, room)>>
                                        ELSE <<>>
                ELSE \A k \in Conns \ {c} : emitted'[k] = <<>>
    ]_vars

\* a subscriber of a room has just sent typing while another open connection
\* was subscribed too: the other got user_typing, the originator nothing
C22_Witness ==
  \E c \in live, k \in live :
    /\ k # c
    /\ request = Request(c, "typing", NoToken, "R1", <<>>)
    /\ {c, k} \subseteq subs["R1"]
    /\ active_users[c] # None
    /\ emitted[k] = <<UserEv("user_typing", active_users[c], "R1")>>
    /\ emitted[c] = <<>>
    /\ messages = <<>>

\* the positions in rooms of the private rooms that carry code
Carriers(code) ==
  {i \in 1..Len(rooms) : rooms[i].type = "private" /\ rooms[i].room_id = code}

\* C23: whatever the interleaving of the create_room requests, no two
\* private rooms of rooms_collection, seeded or created, carry the same
\* room_id code.
C23_UniqueRoomCodes ==
  \A code \in GeneratedCodes :
    Cardinality(Carriers(code))
      + Cardinality({r \in DOMAIN room_code : room_code[r] = code}) <= 1

\* C24: the step of send_message that inserts the message reports no error
\* and goes on to the broadcast; the broadcast step delivers the new_message
\* of that message to the open subscribers of the room and reports no error;
\* and whenever a handler waits to broadcast its inserted message, a state
\* follows in which it has broadcast it and no handler waits to broadcast.
C24_PersistedIsBroadcast ==
  /\ [][\A c \in Conns :
          /\ (pc[c] = "send_persist" /\ messages' # messages)
               => /\ pc'[c] = "send_broadcast"
                  /\ cur'[c].mid = Len(messages')
                  /\ emitted' = NoEmit
          /\ (pc[c] = "send_broadcast" /\ pc'[c] # pc[c])
               => /\ pc'[c] = "idle"
                  /\ cur[c].mid \in 1..Len(messages)
                  /\ \A k \in Conns :
                       emitted'[k] = IF k \in subs[cur[c].room] \cap live
                                     THEN <<NewMessageEv(c)>> ELSE <<>>
       ]_vars
  /\ (\E c \in Conns : pc[c] = "send_broadcast")
       ~> (\A c \in Conns : pc[c] # "send_broadcast")

\* a persisted message has been broadcast: its sender, subscribed to the
\* room, received it, and the send_message handler has returned
C24_Witness ==
  /\ request.event = "send_message"
  /\ Idle(request.sid)
  /\ Len(messages) = 1
  /\ messages[1].room_id = request.room_id
  /\ request.sid \in subs[request.room_id] \cap live
  /\ received[request.sid] = <<1>>
  /\ emitted[request.sid][1].ev = "new_message"

\* C25: when no handler is in progress and no store call has failed, every
\* user whose last presence event is user_online has an open connection
\* bound to it.
C25_PresenceFollowsBindings ==
  \A u \in users_collection :
    (AllIdle /\ faults = 0 /\ presence[u] = "user_online")
      => \E c \in live : active_users[c] = u

\* C26: when no store call fails, the first step of a leave_room by a
\* connection subscribed to the room removes it from the subscribers of the
\* room and delivers room_left to it and nothing to anyone else; the next
\* step delivers user_left_room for its user to every open connection then
\* subscribed to the room, nothing to the leaving connection or to anyone
\* else, and ends the handler.
C26_LeaveBySubscriber ==
  [][\A c \in Conns :
       /\ ( /\ Starts({"leave_room"})
            /\ request'.sid = c
            /\ request'.room_id \in RoomKeys
            /\ c \in subs[request'.room_id]
            /\ faults' = faults )
            => LET room == request'.room_id
               IN /\ subs' = [subs EXCEPT ![room] = @ \ {c}]
                  /\ emitted' = [k \in Conns |->
                                   IF k = c THEN <<UserEv("room_left", None, room)>>
                                   ELSE <<>>]
                  /\ pc'[c] = "leave_notify"
                  /\ cur'[c].room = room
                  /\ cur'[c].user = session[c]
       /\ (pc[c] = "leave_notify" /\ pc'[c] # pc[c])
            => /\ pc'[c] = "idle"
               /\ subs' = subs
               /\ c \notin subs[cur[c].room]
               /\ \A k \in Conns :
                    emitted'[k] =
                      IF k \in subs[cur[c].room] \cap live
                      THEN <<UserEv("user_left_room", cur[c].user, cur[c].room)>>
                      ELSE <<>>
    ]_vars

\* the connection of U2, which had joined R1, has left it while the
\* connection of U1 stayed subscribed: U1's got user_left_room for U2
C26_Witness ==
  \E c \in live, k \in live :
    /\ k # c
    /\ active_users[c] = "U2"
    /\ active_users[k] = "U1"
    /\ request = Request(c, "leave_room", NoToken, "R1", <<>>)
    /\ Idle(c)
    /\ is_member("R1", "U2")
    /\ c \notin subs["R1"]
    /\ k \in subs["R1"]
    /\ emitted[k] = <<UserEv("user_left_room", "U2", "R1")>>
    /\ emitted[c] = <<>>

\* C27: when no store call has failed, a leave_room for a room that has
\* open subscribers, sent by a connection that is not subscribed to it,
\* ends in its first step: it does not go on to the step that emits
\* user_left_room to the room.
C27_LeaveByOutsiderIsNoOp ==
  [][\A c \in Conns :
       ( /\ Starts({"leave_room"})
         /\ request'.sid = c
         /\ request'.room_id \in RoomKeys
         /\ c \notin subs[request'.room_id]
         /\ subs[request'.room_id] \cap live # {}
         /\ faults' = 0 )
         => pc'[c] = "idle"
    ]_vars

\* C28: when no store call has failed, a typing or stop_typing for a room
\* sent by a connection that is not subscribed to it delivers nothing to
\* any other connection.
C28_TypingNeedsSubscription ==
  [][\A c \in Conns :
       ( /\ Starts({"typing", "stop_typing"})
         /\ request'.sid = c
         /\ request'.room_id \in RoomKeys
         /\ c \notin subs[request'.room_id]
         /\ faults' = 0 )
         => \A k \in Conns \ {c} : emitted'[k] = <<>>
    ]_vars

\* C29: an open connection with no handler in progress has the same user in
\* its session auth_data and in its active_users entry, or none in both.
C29_SessionMatchesActiveUsers ==
  \A c \in live : Idle(c) => session[c] = active_users[c]

====
